---------------------------- MODULE Spec2Model ----------------------------
(***************************************************************************)
(* Model of server.go: the registry `clients` guarded by `clientsMu`, the  *)
(* per-session handler wsHandler, the ticker loop broadcastUpdates and the *)
(* central-force law gravitationalAccel.                                   *)
(*                                                                         *)
(* Numbers.  The program computes in float64.  Here every float64 value is *)
(* a decimal fixed-point integer and every float operation is the exact    *)
(* operation truncated toward zero to the quantum of its result:           *)
(*   positions, velocities, distances, unit vectors : 10^-6  (Micro)       *)
(*   force, acceleration                            : 10^-3  (Milli)       *)
(* The quanta differ because TLC's integers are 32 bits wide: the force    *)
(* reaches 10^4 at the softening radius, positions need six decimals.      *)
(***************************************************************************)
EXTENDS Integers, Sequences, FiniteSets, TLC

(***************************************************************************)
(* Bounds of the model.                                                    *)
(***************************************************************************)
NumConns == 2          \* session handles (*websocket.Conn) that may connect
MaxTicks == 2          \* firings of the ticker that are explored
MaxClock == 1          \* readings of time.Now().UnixNano() are 0..MaxClock

(***************************************************************************)
(* Fixed-point quanta and the program's constants.                         *)
(***************************************************************************)
Micro   == 1000000     \* 1.0 as a position, velocity, distance, unit vector
Milli   == 1000        \* 1.0 as a force or an acceleration

GInverse  == 10000     \* G = 0.0001 = 1/GInverse
StarMass  == 1000000
TimeStep  == 16000     \* 0.016 in Micro
SofteningRadius == 100000  \* the literal 0.1 of gravitationalAccel, in Micro
MinDistance == 10
MaxDistance == 100

Abs(n) == IF n < 0 THEN -n ELSE n
Sign(n) == IF n < 0 THEN -1 ELSE IF n > 0 THEN 1 ELSE 0

(***************************************************************************)
(* floor(a*b/c) and the remainder, for 0 <= a < c < 2^31/7 and b >= 0,     *)
(* without ever forming a*b: b is taken two bits at a time, most           *)
(* significant first.                                                      *)
(***************************************************************************)
RECURSIVE QuoRem(_, _, _)
QuoRem(a, b, c) ==
    IF b = 0 THEN <<0, 0>>
    ELSE LET p == QuoRem(a, b \div 4, c)
             t == 4 * p[2] + (b % 4) * a
         IN  <<4 * p[1] + (t \div c), t % c>>

\* a*b/c truncated toward zero, for integers a, b and c > 0.
MulDiv(a, b, c) ==
    LET m == Abs(a)
        n == Abs(b)
    IN  Sign(a) * Sign(b) * ((m \div c) * n + QuoRem(m % c, n, c)[1])

\* Newton's iteration for the square root of a*a + b*b, n steps from a + b.
RECURSIVE SqrtNewton(_, _, _)
SqrtNewton(a, b, n) ==
    IF n = 0 THEN a + b
    ELSE LET r == SqrtNewton(a, b, n - 1)
         IN  (r + MulDiv(a, a, r) + MulDiv(b, b, r)) \div 2

\* k*k <= a*a + b*b for a >= b > 0, decided as (k-a)*(k+a) <= b*b.
SquareLeq(k, a, b) ==
    \/ k <= a
    \/ /\ k < a + b
       /\ LET p == QuoRem(k - a, k + a, b)
          IN  p[1] < b \/ (p[1] = b /\ p[2] = 0)

\* math.Sqrt(x*x + y*y): the floor of the square root, in the quantum of x
\* and y.  SqrtSteps Newton steps end within one quantum of it.
SqrtSteps == 6
Hypot(x, y) ==
    LET a == IF Abs(x) >= Abs(y) THEN Abs(x) ELSE Abs(y)
        b == IF Abs(x) >= Abs(y) THEN Abs(y) ELSE Abs(x)
        r == SqrtNewton(a, b, SqrtSteps)
    IN  IF b = 0 THEN a
        ELSE IF SquareLeq(r + 1, a, b) THEN r + 1
        ELSE IF SquareLeq(r, a, b) THEN r
        ELSE r - 1

Vec(x, y) == [X |-> x, Y |-> y]

(***************************************************************************)
(* func gravitationalAccel(pos Vector2) Vector2.  The result is in Milli.  *)
(***************************************************************************)
ClampRadius(r) == IF r < SofteningRadius THEN SofteningRadius ELSE r

\* Mutant of Force: the force falls off as 1/r instead of 1/r^2.
ForceInverseLinear(r) == -MulDiv((StarMass \div GInverse) * Milli, Micro, r)

\* force := -G * StarMass / (r * r), taken as (G*StarMass/r)/r: the same real
\* number, with an intermediate (G*StarMass/r in 10^-7) that fits 31 bits.
Force(r) ==
    -MulDiv(MulDiv((StarMass \div GInverse) * Micro * 10, Micro \div 100, r), Micro \div 100, r)

gravitationalAccel(pos) ==
    LET r     == ClampRadius(Hypot(pos.X, pos.Y))
        force == Force(r)
        unitX == MulDiv(pos.X, Micro, r)
        unitY == MulDiv(pos.Y, Micro, r)
    IN  Vec(MulDiv(force, unitX, Micro), MulDiv(force, unitY, Micro))

\* Mutant of Integrate: explicit Euler, the position advanced with the old
\* velocity before the velocity is updated.
IntegrateExplicit(entity) ==
    LET accel == gravitationalAccel(entity.Position)
    IN  [entity EXCEPT !.Position = Vec(entity.Position.X + MulDiv(entity.Velocity.X, TimeStep, Micro),
                                        entity.Position.Y + MulDiv(entity.Velocity.Y, TimeStep, Micro)),
                       !.Velocity = Vec(entity.Velocity.X + MulDiv(accel.X, TimeStep, Milli),
                                        entity.Velocity.Y + MulDiv(accel.Y, TimeStep, Milli))]

\* One semi-implicit Euler step of the physics loop on an entity.
Integrate(entity) ==
    LET accel == gravitationalAccel(entity.Position)
        vx == entity.Velocity.X + MulDiv(accel.X, TimeStep, Milli)
        vy == entity.Velocity.Y + MulDiv(accel.Y, TimeStep, Milli)
    IN  [entity EXCEPT !.Velocity = Vec(vx, vy),
                       !.Position = Vec(entity.Position.X + MulDiv(vx, TimeStep, Micro),
                                        entity.Position.Y + MulDiv(vy, TimeStep, Micro))]


(***************************************************************************)
(* State.                                                                  *)
(***************************************************************************)
VARIABLES
    clients,    \* the map clients: handle -> Entity
    clientsMu,  \* the holder of the mutex: Unlocked, Broadcaster or a handle
    pc,         \* where each wsHandler goroutine stands
    entity,     \* wsHandler's local variable entity, per handle
    now,        \* the last reading of time.Now().UnixNano()
    tpc,        \* where the broadcastUpdates goroutine stands
    tick,       \* firings of the ticker consumed so far
    todo,       \* handles the fan-out loop of this tick has not visited yet
    hist,       \* per tick: the marshalled update and the outcome of its writes
    call        \* a single call of gravitationalAccel: argument and result

vars == <<clients, clientsMu, pc, entity, now, tpc, tick, todo, hist, call>>

Conns == 1 .. NumConns
Unlocked == 0
Broadcaster == 0 - 1

\* fmt.Sprintf("%d", n) for n >= 0: the decimal digits, most significant first.
RECURSIVE FormatInt(_)
FormatInt(n) ==
    IF n < 10 THEN <<n>> ELSE Append(FormatInt(n \div 10), n % 10)

\* randomPosition(): two of the points at a radius in [MinDistance, MaxDistance).
StartPositions ==
    {p \in {Vec(10 * Micro, 0), Vec(-30 * Micro, 40 * Micro)} :
        /\ Hypot(p.X, p.Y) >= MinDistance * Micro
        /\ Hypot(p.X, p.Y) < MaxDistance * Micro}

\* The Entity literal of wsHandler.
NewEntity(t, p) ==
    [ID |-> FormatInt(t), Position |-> p, Velocity |-> Vec(0, 0), Connected |-> TRUE]

\* The zero value of Entity (a handler that has not built its entity yet).
ZeroEntity == [ID |-> <<>>, Position |-> Vec(0, 0), Velocity |-> Vec(0, 0), Connected |-> FALSE]

\* Mutant of MapDelete: the key is left in the map.
MapDeleteNothing(m, k) == m

\* clients[k] = v and delete(clients, k) on a Go map.
MapStore(m, k, v) == [x \in DOMAIN m \cup {k} |-> IF x = k THEN v ELSE m[x]]
MapDelete(m, k) == [x \in DOMAIN m \ {k} |-> m[x]]

\* Mutant of CanLock: Lock() returns whoever holds the mutex.
CanLockAlways(mu) == TRUE

\* clientsMu.Lock() returns only when nobody holds the mutex.
CanLock(mu) == mu = Unlocked

NoCall == [pos |-> Vec(0, 0), done |-> FALSE, accel |-> Vec(0, 0)]

Init ==
    /\ clients = <<>>
    /\ clientsMu = Unlocked
    /\ pc = [c \in Conns |-> "new"]
    /\ entity = [c \in Conns |-> ZeroEntity]
    /\ now = 0
    /\ tpc = "wait"
    /\ tick = 0
    /\ todo = {}
    /\ hist = <<>>
    /\ call = NoCall

(***************************************************************************)
(* wsHandler, one goroutine per handle c.                                  *)
(***************************************************************************)
\* upgrader.Upgrade fails: the handler returns before anything is registered.
UpgradeError(c) ==
    /\ pc[c] = "new"
    /\ pc' = [pc EXCEPT ![c] = "refused"]
    /\ UNCHANGED <<clients, clientsMu, entity, now, tpc, tick, todo, hist, call>>

\* Upgrade succeeds; id from the clock, randomPosition(), the Entity literal.
Upgrade(c) ==
    /\ pc[c] = "new"
    /\ \E t \in now .. MaxClock, p \in StartPositions :
          /\ now' = t
          /\ entity' = [entity EXCEPT ![c] = NewEntity(t, p)]
    /\ pc' = [pc EXCEPT ![c] = "upgraded"]
    /\ UNCHANGED <<clients, clientsMu, tpc, tick, todo, hist, call>>

\* Mutant of RegisterLock: the handler registers without taking the mutex.
RegisterLockSkipped(c) ==
    /\ pc[c] = "upgraded"
    /\ pc' = [pc EXCEPT ![c] = "register"]
    /\ UNCHANGED <<clients, clientsMu, entity, now, tpc, tick, todo, hist, call>>

RegisterLock(c) ==
    /\ pc[c] = "upgraded"
    /\ CanLock(clientsMu)
    /\ clientsMu' = c
    /\ pc' = [pc EXCEPT ![c] = "register"]
    /\ UNCHANGED <<clients, entity, now, tpc, tick, todo, hist, call>>

\* clients[conn] = entity; clientsMu.Unlock()
RegisterStore(c) ==
    /\ pc[c] = "register"
    /\ clients' = MapStore(clients, c, entity[c])
    /\ clientsMu' = Unlocked
    /\ pc' = [pc EXCEPT ![c] = "read"]
    /\ UNCHANGED <<entity, now, tpc, tick, todo, hist, call>>

\* conn.ReadMessage(): a message is dropped and the loop goes on, an error
\* breaks the loop and runs the deferred function.
ReadMessage(c) ==
    /\ pc[c] = "read"
    /\ \E err \in BOOLEAN :
          pc' = [pc EXCEPT ![c] = IF err THEN "defer" ELSE "read"]
    /\ UNCHANGED <<clients, clientsMu, entity, now, tpc, tick, todo, hist, call>>

\* Mutant of DeferLock: the deferred function does not take the mutex.
DeferLockSkipped(c) ==
    /\ pc[c] = "defer"
    /\ pc' = [pc EXCEPT ![c] = "unregister"]
    /\ UNCHANGED <<clients, clientsMu, entity, now, tpc, tick, todo, hist, call>>

DeferLock(c) ==
    /\ pc[c] = "defer"
    /\ CanLock(clientsMu)
    /\ clientsMu' = c
    /\ pc' = [pc EXCEPT ![c] = "unregister"]
    /\ UNCHANGED <<clients, entity, now, tpc, tick, todo, hist, call>>

\* Mutant of DeferStore: the mutex is released between store and delete.
DeferStoreUnlocks(c) ==
    /\ pc[c] = "unregister"
    /\ entity' = [entity EXCEPT ![c].Connected = FALSE]
    /\ clients' = MapStore(clients, c, entity'[c])
    /\ clientsMu' = Unlocked
    /\ pc' = [pc EXCEPT ![c] = "delete"]
    /\ UNCHANGED <<now, tpc, tick, todo, hist, call>>

\* entity.Connected = false; clients[conn] = entity
DeferStore(c) ==
    /\ pc[c] = "unregister"
    /\ entity' = [entity EXCEPT ![c].Connected = FALSE]
    /\ clients' = MapStore(clients, c, entity'[c])
    /\ pc' = [pc EXCEPT ![c] = "delete"]
    /\ UNCHANGED <<clientsMu, now, tpc, tick, todo, hist, call>>

\* delete(clients, conn); clientsMu.Unlock()
DeferDelete(c) ==
    /\ pc[c] = "delete"
    /\ clients' = MapDelete(clients, c)
    /\ clientsMu' = Unlocked
    /\ pc' = [pc EXCEPT ![c] = "close"]
    /\ UNCHANGED <<entity, now, tpc, tick, todo, hist, call>>

\* Mutant of Close: the transport is closed as soon as the read loop failed,
\* before the deferred function deregistered the entity.
CloseBeforeDeregister(c) ==
    /\ pc[c] = "defer"
    /\ pc' = [pc EXCEPT ![c] = "closed"]
    /\ UNCHANGED <<clients, clientsMu, entity, now, tpc, tick, todo, hist, call>>

\* conn.Close()
Close(c) ==
    /\ pc[c] = "close"
    /\ pc' = [pc EXCEPT ![c] = "closed"]
    /\ UNCHANGED <<clients, clientsMu, entity, now, tpc, tick, todo, hist, call>>

(***************************************************************************)
(* broadcastUpdates: one iteration of `for range ticker.C`.                *)
(***************************************************************************)
TickLock ==
    /\ tpc = "wait"
    /\ tick < MaxTicks
    /\ CanLock(clientsMu)
    /\ clientsMu' = Broadcaster
    /\ tick' = tick + 1
    /\ tpc' = "physics"
    /\ UNCHANGED <<clients, pc, entity, now, todo, hist, call>>

\* Mutant of PhysicsEntry: the Connected check is dropped.
PhysicsEntryAll(e) == Integrate(e)

\* Mutant of PhysicsEntry: the loop stores every entry back as connected.
PhysicsEntryRevive(e) == [Integrate(e) EXCEPT !.Connected = TRUE]

\* The body of the physics loop for one map entry.
PhysicsEntry(e) == IF e.Connected THEN Integrate(e) ELSE e

\* Mutant of Physics: the loop stops after the first entry.
PhysicsFirstEntry ==
    /\ tpc = "physics"
    /\ clients' = [c \in DOMAIN clients |->
                     IF \A d \in DOMAIN clients : c <= d
                     THEN PhysicsEntry(clients[c]) ELSE clients[c]]
    /\ tpc' = "marshal"
    /\ UNCHANGED <<clientsMu, pc, entity, now, tick, todo, hist, call>>

\* The physics loop: every entry is visited once, entries are independent.
Physics ==
    /\ tpc = "physics"
    /\ clients' = [c \in DOMAIN clients |-> PhysicsEntry(clients[c])]
    /\ tpc' = "marshal"
    /\ UNCHANGED <<clientsMu, pc, entity, now, tick, todo, hist, call>>

\* Mutant of MarshalNextMu: the error branch continues without Unlock().
MarshalKeepsLock(err) == Broadcaster

\* Mutant of MarshalNextMu: the mutex is released before the fan-out loop.
MarshalReleases(err) == Unlocked

\* What the broadcaster holds after json.Marshal returned err.
MarshalNextPc(err) == IF err THEN "wait" ELSE "fanout"
MarshalNextMu(err) == IF err THEN Unlocked ELSE Broadcaster
MarshalTodo(err, m) == IF err THEN {} ELSE DOMAIN m

\* The snapshot loop, json.Marshal and its error branch.
Marshal ==
    /\ tpc = "marshal"
    /\ \E err \in BOOLEAN :
          /\ hist' = Append(hist, [entities |-> clients, err |-> err,
                                   written |-> {}, failed |-> {}])
          /\ tpc' = MarshalNextPc(err)
          /\ clientsMu' = MarshalNextMu(err)
          /\ todo' = MarshalTodo(err, clients)
    /\ UNCHANGED <<clients, pc, entity, now, tick, call>>

\* Mutant of FanoutRest: a failed write breaks out of the loop.
FanoutRestAbort(rest, c, err) == IF err THEN {} ELSE rest \ {c}

\* Mutant of AfterWrite: a failed write deletes the key.
AfterWriteRemove(m, c, err) == IF err THEN [x \in DOMAIN m \ {c} |-> m[x]] ELSE m

\* Mutant of FanoutRest: the loop does not move past the entry it visited.
FanoutRestKeep(rest, c, err) == rest

\* The handles the fan-out loop still visits after it visited c.
FanoutRest(rest, c, err) == rest \ {c}

\* The registry after the write to c returned err.
AfterWrite(m, c, err) == IF err THEN [m EXCEPT ![c].Connected = FALSE] ELSE m

\* Mutant of SkipWrite: the fan-out loop writes to every entry.
SkipNever(e) == FALSE

\* `if !entity.Connected { continue }` of the fan-out loop.
SkipWrite(e) == ~e.Connected

\* One iteration of the fan-out loop, on any entry not visited yet.
Fanout(c) ==
    /\ tpc = "fanout"
    /\ c \in todo
    /\ IF SkipWrite(clients[c])
       THEN /\ todo' = todo \ {c}
            /\ UNCHANGED <<clients, hist>>
       ELSE \E err \in BOOLEAN :
            /\ clients' = AfterWrite(clients, c, err)
            /\ hist' = [hist EXCEPT
                          ![tick].written = IF err THEN @ ELSE @ \cup {c},
                          ![tick].failed  = IF err THEN @ \cup {c} ELSE @]
            /\ todo' = FanoutRest(todo, c, err)
    /\ UNCHANGED <<clientsMu, pc, entity, now, tpc, tick, call>>

\* Mutant of TickUnlock: the loop goes back to the ticker without Unlock().
TickUnlockForgotten ==
    /\ tpc = "fanout"
    /\ todo = {}
    /\ tpc' = "wait"
    /\ UNCHANGED <<clients, clientsMu, pc, entity, now, tick, todo, hist, call>>

\* The loop is over: clientsMu.Unlock(), back to waiting for the ticker.
TickUnlock ==
    /\ tpc = "fanout"
    /\ todo = {}
    /\ clientsMu' = Unlocked
    /\ tpc' = "wait"
    /\ UNCHANGED <<clients, pc, entity, now, tick, todo, hist, call>>

Next ==
    \/ \E c \in Conns : UpgradeError(c)
    \/ \E c \in Conns : Upgrade(c)
    \/ \E c \in Conns : RegisterLock(c)
    \/ \E c \in Conns : RegisterStore(c)
    \/ \E c \in Conns : ReadMessage(c)
    \/ \E c \in Conns : DeferLock(c)
    \/ \E c \in Conns : DeferStore(c)
    \/ \E c \in Conns : DeferDelete(c)
    \/ \E c \in Conns : Close(c)
    \/ TickLock
    \/ Physics
    \/ Marshal
    \/ \E c \in Conns : Fanout(c)
    \/ TickUnlock

Spec == Init /\ [][Next]_vars

\* Scheduling: a goroutine that can run its next statement does so, and a
\* goroutine waiting in clientsMu.Lock() gets the mutex although the
\* broadcaster takes it again every tick (sync.Mutex hands a starving waiter
\* the mutex). A WriteMessage call returns. The arrival of a connection, the
\* end of a read loop and the ticker are left to the environment. The
\* physics loop is enabled exactly when tpc = "physics" and its step leaves
\* that location, so its weak fairness is stated on the location.
Fairness ==
    /\ \A c \in Conns :
          /\ WF_vars(RegisterStore(c))
          /\ SF_vars(DeferLock(c))
          /\ WF_vars(DeferStore(c))
          /\ WF_vars(DeferDelete(c))
          /\ WF_vars(Close(c))
    /\ []<>(tpc # "physics")
    /\ WF_vars(Marshal)
    /\ WF_vars(\E c \in Conns : Fanout(c))
    /\ WF_vars(TickUnlock)

SpecFair == Spec /\ Fairness

(***************************************************************************)
(* gravitationalAccel on its own: one call on an argument from a grid that *)
(* covers the origin, the softening disc, its rim and the orbit range.     *)
(***************************************************************************)
Coords ==
    {0, 30000, 40000, 60000, 80000, 100000, 123457, 3000000, 4000000,
     9999744, 10000000, 40000000}

AccelInputs == {Vec(sx * x, sy * y) : x \in Coords, y \in Coords, sx \in {-1, 1}, sy \in {-1, 1}}

InitAccel ==
    /\ clients = <<>>
    /\ clientsMu = Unlocked
    /\ pc = [c \in Conns |-> "new"]
    /\ entity = [c \in Conns |-> ZeroEntity]
    /\ now = 0
    /\ tpc = "wait"
    /\ tick = 0
    /\ todo = {}
    /\ hist = <<>>
    /\ call \in {[pos |-> p, done |-> FALSE, accel |-> Vec(0, 0)] : p \in AccelInputs}

CallAccel ==
    /\ ~call.done
    /\ call' = [call EXCEPT !.done = TRUE, !.accel = gravitationalAccel(call.pos)]
    /\ UNCHANGED <<clients, clientsMu, pc, entity, now, tpc, tick, todo, hist>>

NextAccel == CallAccel

SpecAccel == InitAccel /\ [][NextAccel]_vars

(***************************************************************************)
(* Properties.                                                             *)
(***************************************************************************)
Ticks == 1 .. Len(hist)

\* The handles tick t found registered with Connected = true at fan-out time.
ConnectedAt(t) == {c \in DOMAIN hist[t].entities : hist[t].entities[c].Connected}

\* The handles tick t called WriteMessage on.
Attempted(t) == hist[t].written \cup hist[t].failed

\* Tick t is over: a later tick began, or the broadcaster waits for the ticker.
TickOver(t) == t < tick \/ tpc = "wait"

\* The handler of c has not yet deleted its key (it may never have stored it).
NotDeleted(c) == pc[c] \in {"read", "defer", "unregister", "delete"}

\* C1 (fan-out resilience): in every tick whose serialization succeeded,
\* WriteMessage is called on exactly the handles registered with
\* Connected = true at fan-out time -- a failed write to one of them does not
\* take any other out of the loop, whatever the order of iteration -- and
\* once the tick is over the broadcaster no longer holds the mutex.
C1_FanoutResilience ==
    /\ \A t \in Ticks :
          ~hist[t].err =>
             /\ Attempted(t) \subseteq ConnectedAt(t)
             /\ IF TickOver(t)
                THEN Attempted(t) = ConnectedAt(t)
                ELSE ConnectedAt(t) \ Attempted(t) \subseteq todo
    /\ tpc = "wait" => clientsMu # Broadcaster

\* A finished tick in which one write failed and another session was written.
C1_Witness ==
    \E t \in Ticks :
       /\ TickOver(t)
       /\ hist[t].failed # {}
       /\ hist[t].written # {}
       /\ clientsMu # Broadcaster

\* C2 as stated (ghost window): after a write to a session fails, its entity
\* is in the next tick's snapshot, with Connected = false, and is absent from
\* the registry only once its handler has deregistered it.
C2_GhostInNextSnapshot ==
    \A t \in Ticks : \A c \in hist[t].failed :
       /\ t < Len(hist) =>
             /\ c \in DOMAIN hist[t + 1].entities
             /\ ~hist[t + 1].entities[c].Connected
       /\ c \notin DOMAIN clients => pc[c] \in {"close", "closed"}

\* C2 as amended (ghost window): a handle whose write failed stays in the
\* registry, with Connected = false, as long as its own handler has not
\* deleted it; every snapshot is the whole registry, ghosts included, so a
\* later snapshot lists the ghost with Connected = false and omits it only if
\* its handler has deleted it by then; and a key leaves the registry only in
\* the delete step of its own handler.
C2_GhostWindow ==
    /\ [](\A t \in Ticks : \A c \in hist[t].failed :
             /\ NotDeleted(c) => c \in DOMAIN clients /\ ~clients[c].Connected
             /\ \A u \in Ticks :
                   u > t =>
                      IF c \in DOMAIN hist[u].entities
                      THEN ~hist[u].entities[c].Connected
                      ELSE ~NotDeleted(c))
    /\ [][Len(hist') > Len(hist) => hist'[Len(hist')].entities = clients]_vars
    /\ [][\A c \in DOMAIN clients :
             c \notin DOMAIN clients' => pc[c] = "delete" /\ pc'[c] = "close"]_vars

\* The tick after a failed write lists the ghost, which is still registered.
C2_Witness ==
    \E t \in Ticks : \E c \in hist[t].failed :
       /\ t < Len(hist)
       /\ c \in DOMAIN hist[t + 1].entities
       /\ ~hist[t + 1].entities[c].Connected
       /\ c \in DOMAIN clients
       /\ pc[c] = "read"

\* C3 (registry uniqueness): no two entities registered at the same time
\* share an ID.
C3_UniqueIds ==
    \A c \in DOMAIN clients : \A d \in DOMAIN clients :
       c # d => clients[c].ID # clients[d].ID

\* The handlers inside a critical section of clientsMu.
InCritical == {c \in Conns : pc[c] \in {"register", "unregister", "delete"}}

\* C4 (tick atomicity): the mutex is held by the broadcaster exactly while a
\* tick is in progress and by a handler exactly while it is between Lock and
\* Unlock, so at most one of them is inside; while a tick is in progress the
\* registry keeps its keys, only the broadcaster changes it and no handler
\* moves into or inside its critical section; during the fan-out the registry
\* is the tick's snapshot but for the Connected flags of the failed writes;
\* while a handler is inside, the broadcaster does not move.
C4_TickAtomicity ==
    /\ []((tpc # "wait") = (clientsMu = Broadcaster))
    /\ [](\A c \in Conns : (c \in InCritical) = (clientsMu = c))
    /\ [][tpc # "wait" =>
            /\ DOMAIN clients' = DOMAIN clients
            /\ clients' # clients => pc' = pc
            /\ \A c \in Conns : pc'[c] \in {"register", "unregister", "delete"} => pc'[c] = pc[c]]_vars
    /\ [](tpc = "fanout" =>
            /\ DOMAIN clients = DOMAIN hist[tick].entities
            /\ \A c \in DOMAIN clients :
                  clients[c] = IF c \in hist[tick].failed
                               THEN [hist[tick].entities[c] EXCEPT !.Connected = FALSE]
                               ELSE hist[tick].entities[c])
    /\ [][InCritical # {} => tpc' = tpc /\ hist' = hist /\ todo' = todo /\ tick' = tick]_vars

\* A tick is between its physics step and the end of its fan-out while one
\* handler waits to register and another waits to deregister.
C4_Witness ==
    /\ tpc = "fanout"
    /\ \E c \in Conns : pc[c] = "upgraded"
    /\ \E c \in Conns : pc[c] = "defer"

\* C5 (serialization failure): a tick whose json.Marshal failed writes to no
\* session and marks nobody disconnected; the step that takes the error
\* branch leaves the registry as the physics step left it, releases the mutex
\* and returns to the ticker, so that the next tick can start; and the next
\* tick integrates from the positions the failed tick computed.
C5_MarshalFailure ==
    /\ [](\A t \in Ticks : hist[t].err => hist[t].written = {} /\ hist[t].failed = {})
    /\ [][(Len(hist') > Len(hist) /\ hist'[Len(hist')].err) =>
            /\ clients' = clients
            /\ hist'[Len(hist')].entities = clients
            /\ clientsMu' = Unlocked
            /\ tpc' = "wait"
            /\ CanLock(clientsMu')]_vars
    /\ [](\A t \in Ticks :
            (hist[t].err /\ t < Len(hist)) =>
               \A c \in ConnectedAt(t) \cap DOMAIN hist[t + 1].entities :
                  hist[t + 1].entities[c] = Integrate(hist[t].entities[c]))

\* A tick failed to serialize and the next one wrote its payload to a session
\* that went through both.
C5_Witness ==
    \E t \in Ticks :
       /\ hist[t].err
       /\ t < Len(hist)
       /\ ~hist[t + 1].err
       /\ hist[t + 1].written \cap ConnectedAt(t) # {}

\* The effect of wsHandler's deferred function on the registry.
Deregister(m, c, e) == MapDelete(MapStore(m, c, [e EXCEPT !.Connected = FALSE]), c)

\* C6 (idempotent deregistration): on every reachable registry and for every
\* handle, the deregistration step removes the handle's key, changes nothing
\* when the key is absent, leaves every other handle's entity as it was, and
\* run a second time gives the registry the first run gave; and the delete
\* step of a handler leaves the registry its deregistration step defines.
C6_IdempotentDeregister ==
    /\ [](\A c \in Conns :
            LET once  == Deregister(clients, c, entity[c])
                twice == Deregister(once, c, entity[c])
            IN  /\ c \notin DOMAIN once
                /\ c \notin DOMAIN clients => once = clients
                /\ DOMAIN once = DOMAIN clients \ {c}
                /\ \A d \in DOMAIN once : once[d] = clients[d]
                /\ twice = once)
    /\ [][\A c \in Conns :
            (pc[c] = "delete" /\ pc'[c] = "close") =>
               /\ clients' = Deregister(clients, c, entity[c])
               /\ Deregister(clients', c, entity[c]) = clients']_vars

\* A handler has run its deregistration while another entity is registered.
C6_Witness ==
    \E c \in Conns :
       /\ pc[c] = "closed"
       /\ c \notin DOMAIN clients
       /\ DOMAIN clients # {}

\* C7 (write-failure visibility): for a write to c that failed in tick t, the
\* message of tick t lists c with Connected true; no later tick calls
\* WriteMessage on c; every later message that lists c lists it with
\* Connected false; and a later message omits c only if c's handler has
\* deleted it.
C7_WriteFailureVisibility ==
    \A t \in Ticks : \A c \in hist[t].failed :
       /\ hist[t].entities[c].Connected
       /\ \A u \in Ticks :
             u > t =>
                /\ c \notin Attempted(u)
                /\ c \in DOMAIN hist[u].entities => ~hist[u].entities[c].Connected
                /\ c \notin DOMAIN hist[u].entities => pc[c] \in {"close", "closed"}

\* A write failed in one tick and the next tick, run to its end, listed the
\* session as disconnected and wrote to another session.
C7_Witness ==
    \E t \in Ticks : \E c \in hist[t].failed :
       /\ t < Len(hist)
       /\ TickOver(t + 1)
       /\ c \in DOMAIN hist[t + 1].entities
       /\ ~hist[t + 1].entities[c].Connected
       /\ hist[t + 1].written # {}

\* p and q point the same way: a whole multiple of one is a whole multiple of
\* the other.
SameDirection(p, q) ==
    \E i \in 1 .. 10 : \E j \in 1 .. 10 : i * p.X = j * q.X /\ i * p.Y = j * q.Y

\* x*x + y*y = r*r exactly.
NormIs(x, y, r) ==
    LET a == IF Abs(x) >= Abs(y) THEN Abs(x) ELSE Abs(y)
        b == IF Abs(x) >= Abs(y) THEN Abs(y) ELSE Abs(x)
    IN  IF b = 0 THEN a = r
        ELSE a <= r /\ r < a + b /\ QuoRem(r - a, r + a, b) = <<b, 0>>

\* C8 (softening floor): for a position of magnitude below 0.1 the result of
\* gravitationalAccel equals its result for the position of magnitude exactly
\* 0.1 in the same direction.
C8_SofteningFloor ==
    (call.done /\ Hypot(call.pos.X, call.pos.Y) < SofteningRadius) =>
       \A q \in AccelInputs :
          (NormIs(q.X, q.Y, SofteningRadius) /\ SameDirection(call.pos, q))
             => call.accel = gravitationalAccel(q)

\* C9 (integration order): the physics step of a tick gives every connected
\* entity the velocity v + a(p)*dt, with a taken at the position p it had
\* before the step, and the position p + (v + a(p)*dt)*dt; from position
\* (10,0) at rest the acceleration is (-1,0), the new velocity (-0.016,0) and
\* the new position (9.999744,0).
C9_IntegrationOrder ==
    /\ [][(tpc = "physics" /\ tpc' = "marshal") =>
            \A c \in DOMAIN clients :
               clients[c].Connected =>
                  LET p == clients[c].Position
                      v == clients[c].Velocity
                      a == gravitationalAccel(p)
                      w == Vec(v.X + MulDiv(a.X, TimeStep, Milli),
                               v.Y + MulDiv(a.Y, TimeStep, Milli))
                  IN  /\ clients'[c].Velocity = w
                      /\ clients'[c].Position = Vec(p.X + MulDiv(w.X, TimeStep, Micro),
                                                    p.Y + MulDiv(w.Y, TimeStep, Micro))]_vars
    /\ [][(tpc = "physics" /\ tpc' = "marshal") =>
            \A c \in DOMAIN clients :
               (/\ clients[c].Connected
                /\ clients[c].Position = Vec(10000000, 0)
                /\ clients[c].Velocity = Vec(0, 0)) =>
                  /\ gravitationalAccel(clients[c].Position) = Vec(-1000, 0)
                  /\ clients'[c].Velocity = Vec(-16000, 0)
                  /\ clients'[c].Position = Vec(9999744, 0)]_vars

\* An entity registered at (10,0) has been integrated once.
C9_Witness ==
    \E c \in DOMAIN clients :
       /\ entity[c].Position = Vec(10000000, 0)
       /\ clients[c].Velocity = Vec(-16000, 0)
       /\ clients[c].Position = Vec(9999744, 0)

\* |a| * r * r for an acceleration a (Milli) and a distance r (Micro), in
\* Milli: the quantity the law equates to G*StarMass.
TimesSquare(a, r) == MulDiv(MulDiv(a, r, Micro), r, Micro)

\* C10 (acceleration law): for a position p of magnitude r >= 0.1 the result
\* a of gravitationalAccel satisfies |a| * r^2 = G*StarMass, is parallel to p
\* (a.X*p.Y = a.Y*p.X) and points to the origin, up to the rounding of the
\* fixed-point operations (three quanta of acceleration, scaled by r^2 in the
\* first equation and by |p.X| + |p.Y| in the second).
C10_AccelerationLaw ==
    (call.done /\ Hypot(call.pos.X, call.pos.Y) >= SofteningRadius) =>
       LET r  == Hypot(call.pos.X, call.pos.Y)
           a  == call.accel
           ru == r \div Micro + 1
           su == (Abs(call.pos.X) + Abs(call.pos.Y)) \div Micro + 1
       IN  /\ Abs(TimesSquare(Hypot(a.X, a.Y), r) - (StarMass \div GInverse) * Milli)
                 <= 3 * ru * ru + ru
           /\ Abs(MulDiv(a.X, call.pos.Y, Micro) - MulDiv(a.Y, call.pos.X, Micro))
                 <= 3 * su
           /\ a.X * Sign(call.pos.X) <= 0
           /\ a.Y * Sign(call.pos.Y) <= 0
           /\ a # Vec(0, 0)

\* A call on a position off both axes, outside the softening disc, whose
\* result is not zero.
C10_Witness ==
    /\ call.done
    /\ Hypot(call.pos.X, call.pos.Y) > SofteningRadius
    /\ call.pos.X # 0 /\ call.pos.Y # 0
    /\ call.accel.X # 0 /\ call.accel.Y # 0

\* The phase of the session of handle c: 0 Connecting (a refused upgrade
\* stays there), 1 Active, 2 Disconnecting, 3 Removed.
Phase(c) ==
    CASE pc[c] \in {"new", "refused", "upgraded", "register"} -> 0
      [] pc[c] = "read" -> 1
      [] pc[c] \in {"defer", "unregister", "delete", "close"} -> 2
      [] pc[c] = "closed" -> 3

\* The phase of the session of handle c after the step.
PhaseNext(c) ==
    CASE pc'[c] \in {"new", "refused", "upgraded", "register"} -> 0
      [] pc'[c] = "read" -> 1
      [] pc'[c] \in {"defer", "unregister", "delete", "close"} -> 2
      [] pc'[c] = "closed" -> 3

\* The handles some tick has had a failed write to.
EverFailed == UNION {hist[t].failed : t \in Ticks}

\* C11 (session lifecycle): a step keeps a session in its phase or moves it
\* to the next one, in the order Connecting, Active, Disconnecting, Removed;
\* the key enters the registry in the step that makes the session Active, by
\* a handler that upgraded and holds the mutex, and in no other step; the
\* step that leaves Active is the handler's own read error, which writes to
\* nobody and changes no entity; the key leaves the registry while the
\* handler holds the mutex and before the transport is closed; a step in
\* which a write fails moves no session, so the session is still Active with
\* its transport open.
C11_SessionLifecycle ==
    /\ [][\A c \in Conns : PhaseNext(c) \in {Phase(c), Phase(c) + 1}]_vars
    /\ [][\A c \in Conns :
            (c \notin DOMAIN clients /\ c \in DOMAIN clients') <=>
               (Phase(c) = 0 /\ PhaseNext(c) = 1)]_vars
    /\ [][\A c \in Conns :
            (Phase(c) = 0 /\ PhaseNext(c) = 1) =>
               /\ pc[c] = "register"
               /\ clientsMu = c
               /\ clients'[c] = entity[c]
               /\ entity[c].Connected]_vars
    /\ [][\A c \in Conns :
            (Phase(c) = 1 /\ PhaseNext(c) = 2) =>
               /\ pc'[c] = "defer"
               /\ clients' = clients
               /\ hist' = hist
               /\ clientsMu' = clientsMu]_vars
    /\ [][\A c \in Conns :
            (c \in DOMAIN clients /\ c \notin DOMAIN clients') =>
               /\ Phase(c) = 2 /\ PhaseNext(c) = 2
               /\ clientsMu = c
               /\ pc'[c] # "closed"]_vars
    /\ [](\A c \in Conns :
            /\ Phase(c) = 0 => c \notin DOMAIN clients
            /\ Phase(c) = 1 => c \in DOMAIN clients
            /\ pc[c] \in {"close", "closed"} => c \notin DOMAIN clients /\ clientsMu # c)
    /\ [][\A t \in Ticks : \A c \in Conns :
            (c \notin hist[t].failed /\ c \in hist'[t].failed) =>
               /\ pc' = pc
               /\ Phase(c) = 1 \/ pc[c] = "defer"
               /\ c \in DOMAIN clients']_vars

\* One session went through all four phases after a failed write, another is
\* still Active after a failed write.
C11_Witness ==
    \E c \in Conns : \E d \in Conns :
       /\ pc[c] = "closed"
       /\ c \in EverFailed
       /\ pc[d] = "read"
       /\ d \in EverFailed

\* The ticks whose payload was written to handle c without error.
WrittenTicks(c) == {t \in Ticks : c \in hist[t].written}

\* C12 (snapshot ordering per session): ticks are numbered in order and each
\* leaves one record; a payload is written to a session only in the tick that
\* is in progress, which is later than every tick it was written before, and
\* a session written in a tick is not visited again in that tick; a session
\* listed with Connected = true in a tick that serialized is written in that
\* tick, so one whose flag is still true was written in every such tick since
\* it registered; a registered session is passed over in such a tick only if
\* a write to it failed in an earlier tick.
C12_SnapshotOrdering ==
    /\ [][tick' \in {tick, tick + 1} /\ Len(hist') \in {Len(hist), Len(hist) + 1}]_vars
    /\ [](Len(hist) \in {tick, tick - 1} /\ (tpc \in {"wait", "fanout"} => Len(hist) = tick))
    /\ [][\A t \in Ticks : hist'[t].entities = hist[t].entities /\ hist'[t].err = hist[t].err]_vars
    /\ [][\A c \in Conns : \A t \in 1 .. Len(hist') :
            (t \in WrittenTicks(c)' /\ t \notin WrittenTicks(c)) =>
               /\ t = tick /\ tick' = tick /\ t = Len(hist)
               /\ tpc = "fanout"
               /\ c \in todo /\ c \notin todo'
               /\ \A u \in WrittenTicks(c) : u < t
               /\ WrittenTicks(c)' = WrittenTicks(c) \cup {t}]_vars
    /\ [](tpc = "fanout" => todo \cap hist[tick].written = {})
    /\ [](\A t \in Ticks : \A c \in DOMAIN hist[t].entities :
            (~hist[t].err /\ TickOver(t)) =>
               /\ hist[t].entities[c].Connected => c \in Attempted(t)
               /\ (c \in DOMAIN clients /\ clients[c].Connected) => c \in hist[t].written
               /\ c \notin Attempted(t) =>
                     /\ ~hist[t].entities[c].Connected
                     /\ \E u \in Ticks : u < t /\ c \in hist[u].failed)

\* A session was written in two ticks in a row while another, whose write
\* failed in the first, was passed over in the second.
C12_Witness ==
    \E c \in Conns : \E d \in Conns : \E t \in Ticks :
       /\ t < Len(hist)
       /\ TickOver(t + 1)
       /\ {t, t + 1} \subseteq WrittenTicks(c)
       /\ c \in DOMAIN clients
       /\ clients[c].Connected
       /\ d \in hist[t].failed
       /\ d \in DOMAIN hist[t + 1].entities
       /\ d \notin Attempted(t + 1)

\* The entity of handle c as its handler registered it.
Registered(c) == [entity[c] EXCEPT !.Connected = TRUE]

\* What tick t started from for handle c: the previous tick's record if it
\* lists c, the registered entity otherwise.
Before(t, c) ==
    IF t > 1 /\ c \in DOMAIN hist[t - 1].entities
    THEN hist[t - 1].entities[c]
    ELSE Registered(c)

\* C13 (physics before fan-out): the physics step of a tick advances every
\* connected entry by one integration step at once; the snapshot is the
\* registry that step left; until the snapshot is taken the tick has written
\* to nobody, and writes happen only during the fan-out; so every entity a
\* record lists with Connected = true is exactly one step away from where
\* the tick found it and none is left unstepped.
C13_PhysicsBeforeFanout ==
    /\ [][(tpc = "physics" /\ tpc' # "physics") =>
            /\ tpc' = "marshal"
            /\ hist' = hist
            /\ DOMAIN clients' = DOMAIN clients
            /\ \A c \in DOMAIN clients :
                  clients[c].Connected => clients'[c] = Integrate(clients[c])]_vars
    /\ [][Len(hist') > Len(hist) =>
            /\ tpc = "marshal"
            /\ clients' = clients
            /\ hist'[Len(hist')].entities = clients
            /\ hist'[Len(hist')].written = {}
            /\ hist'[Len(hist')].failed = {}]_vars
    /\ [][hist' # hist => tpc \in {"marshal", "fanout"}]_vars
    /\ [](tpc \in {"physics", "marshal"} => Len(hist) = tick - 1)
    /\ [](\A t \in Ticks : \A c \in ConnectedAt(t) :
            LET from == Before(t, c)
            IN  /\ from.Connected
                /\ hist[t].entities[c] # from
                /\ hist[t].entities[c] = Integrate(from))

\* A payload that lists two connected entities, one in its first tick and
\* one in its second, was written to a session.
C13_Witness ==
    \E t \in Ticks : \E c \in Conns : \E d \in Conns :
       /\ t > 1
       /\ {c, d} \subseteq ConnectedAt(t)
       /\ c \in ConnectedAt(t - 1)
       /\ d \notin DOMAIN hist[t - 1].entities
       /\ hist[t].written # {}

\* The handles the fan-out loop has yet to call WriteMessage on: the call
\* the broadcaster is in (and may be blocked in) is to one of them.
WritePending == IF tpc = "fanout" THEN {c \in todo : ~SkipWrite(clients[c])} ELSE {}

\* C14 (head-of-line blocking): as long as a write of the fan-out loop has
\* not returned the broadcaster holds the mutex: no tick can start, no
\* handler can take the mutex or is inside its critical section, and a step
\* that is not the return of a write changes neither registry, records nor
\* tick, so nothing is integrated, inserted or deleted; the return of a write
\* is the write to one session only, and the mutex stays held until the loop
\* has visited every entry.
C14_HeadOfLineBlocking ==
    /\ [](WritePending # {} =>
            /\ clientsMu = Broadcaster
            /\ InCritical = {}
            /\ ~ENABLED TickLock
            /\ ~ENABLED Physics
            /\ ~ENABLED TickUnlock
            /\ \A c \in Conns :
                  /\ ~ENABLED RegisterLock(c)
                  /\ ~ENABLED RegisterStore(c)
                  /\ ~ENABLED DeferLock(c)
                  /\ ~ENABLED DeferStore(c)
                  /\ ~ENABLED DeferDelete(c))
    /\ [][WritePending # {} =>
            /\ clientsMu' = Broadcaster
            /\ tick' = tick /\ tpc' = tpc
            /\ DOMAIN clients' = DOMAIN clients
            /\ \A c \in DOMAIN clients :
                  /\ clients'[c].Position = clients[c].Position
                  /\ clients'[c].Velocity = clients[c].Velocity
            /\ \A c \in Conns :
                  (pc'[c] # pc[c]) => pc'[c] \in {"refused", "upgraded", "read", "defer", "closed"}
            /\ IF hist' = hist
               THEN clients' = clients /\ WritePending' = WritePending
               ELSE \E c \in WritePending :
                       /\ Attempted(tick)' = Attempted(tick) \cup {c}
                       /\ WritePending' = WritePending \ {c}
                       /\ pc' = pc]_vars

\* A write of the fan-out loop is outstanding while one handler waits for the
\* mutex to register and the written session's handler waits to deregister.
C14_Witness ==
    \E c \in WritePending : \E d \in Conns :
       /\ pc[c] = "defer"
       /\ pc[d] = "upgraded"
       /\ ~ENABLED RegisterLock(d)
       /\ ~ENABLED DeferLock(c)

\* An entity after a failed write to its session.
Ghost(e) == [e EXCEPT !.Connected = FALSE]

\* C15 (physics applies only to connected entities): the physics step of a
\* tick moves every entry with Connected = true to another position and
\* another velocity, keeps its ID and flag, and leaves every entry with
\* Connected = false as it is; so from the tick in which the write to a
\* session failed on, every record lists its entity at the position, velocity
\* and ID that tick computed, and so does the registry until the handler's
\* deferred function overwrites the entry.
C15_PhysicsOnlyConnected ==
    /\ [][(tpc = "physics" /\ tpc' = "marshal") =>
            \A c \in DOMAIN clients :
               IF clients[c].Connected
               THEN /\ clients'[c].Position # clients[c].Position
                    /\ clients'[c].Velocity # clients[c].Velocity
                    /\ clients'[c].ID = clients[c].ID
                    /\ clients'[c].Connected
               ELSE clients'[c] = clients[c]]_vars
    /\ [](\A t \in Ticks : \A c \in hist[t].failed :
            /\ \A u \in Ticks :
                  (u > t /\ c \in DOMAIN hist[u].entities) =>
                     hist[u].entities[c] = Ghost(hist[t].entities[c])
            /\ pc[c] \in {"read", "defer", "unregister"} =>
                  clients[c] = Ghost(hist[t].entities[c]))

\* A tick went over a ghost and a connected entity: its record lists the
\* ghost where the failed write left it and the other entity elsewhere.
C15_Witness ==
    \E t \in Ticks : \E c \in hist[t].failed : \E d \in ConnectedAt(t) :
       /\ t < Len(hist)
       /\ c \in DOMAIN hist[t + 1].entities
       /\ hist[t + 1].entities[c].Position = hist[t].entities[c].Position
       /\ d \in ConnectedAt(t + 1)
       /\ hist[t + 1].entities[d].Position # hist[t].entities[d].Position
       /\ hist[t + 1].entities[d].Velocity # hist[t].entities[d].Velocity

\* C16 (Connected is monotone): a key enters the registry with
\* Connected = true; no step changes the flag of a registered handle from
\* false to true; a key that left the registry does not come back; and in
\* the records of successive ticks a handle listed with Connected = false is
\* never listed with Connected = true later.
C16_ConnectedMonotone ==
    /\ [][\A c \in Conns :
            (c \notin DOMAIN clients /\ c \in DOMAIN clients') =>
               /\ clients'[c].Connected
               /\ pc[c] = "register"]_vars
    /\ [][\A c \in DOMAIN clients \cap DOMAIN clients' :
            ~clients[c].Connected => ~clients'[c].Connected]_vars
    /\ [](\A c \in Conns : pc[c] \in {"close", "closed"} => c \notin DOMAIN clients)
    /\ [](\A t \in Ticks : \A u \in Ticks : \A c \in DOMAIN hist[t].entities :
            (t < u /\ c \in DOMAIN hist[u].entities /\ ~hist[t].entities[c].Connected) =>
               ~hist[u].entities[c].Connected)

\* A handle whose flag a failed write cleared went through a whole further
\* tick and through the store of its handler's deferred function.
C16_Witness ==
    \E t \in Ticks : \E c \in hist[t].failed :
       /\ t < Len(hist)
       /\ TickOver(t + 1)
       /\ c \in DOMAIN hist[t + 1].entities
       /\ pc[c] = "delete"
       /\ ~clients[c].Connected

\* The handles whose handler has deleted the key (and may have closed).
Removed == {c \in Conns : pc[c] \in {"close", "closed"}}

\* C17 (no write after removal): the step in which WriteMessage is called on
\* a session is taken by the broadcaster under the mutex, on a handle that is
\* registered and whose handler has neither deleted the key nor closed the
\* transport; the fan-out loop only has registered handles left to visit;
\* and a handle whose handler deleted the key is in no loop, is never
\* attempted again, and is not in the registry when the transport closes.
C17_NoWriteAfterRemoval ==
    /\ [][\A c \in Conns : \A t \in 1 .. Len(hist') :
            (t \in Ticks /\ c \in Attempted(t)' /\ c \notin Attempted(t)) =>
               /\ clientsMu = Broadcaster
               /\ c \in DOMAIN clients
               /\ clients[c].Connected
               /\ pc[c] \in {"read", "defer"}
               /\ c \notin Removed']_vars
    /\ [](tpc = "fanout" => todo \subseteq DOMAIN clients)
    /\ [](Removed \cap (DOMAIN clients \cup todo) = {})
    /\ [][\A c \in Removed : \A t \in Ticks :
            (c \in Attempted(t)') = (c \in Attempted(t))]_vars
    /\ [][\A c \in Conns :
            (c \notin Removed /\ c \in Removed') =>
               /\ clientsMu = c
               /\ tpc = "wait"
               /\ pc'[c] = "close"
               /\ c \notin DOMAIN clients']_vars

\* A session was written in one tick, its handler removed it and closed the
\* transport, and the next tick wrote to another session only.
C17_Witness ==
    \E t \in Ticks : \E c \in hist[t].written :
       /\ t < Len(hist)
       /\ pc[c] = "closed"
       /\ c \notin DOMAIN hist[t + 1].entities
       /\ hist[t + 1].written # {}
       /\ TickOver(t + 1)

\* The handlers that have not reached the mutex of their registration.
Unregistered == {c \in Conns : pc[c] \in {"new", "refused", "upgraded"}}

\* C18 (recipient is in its own snapshot): every session a tick calls
\* WriteMessage on is listed in that tick's record with Connected = true; the
\* record lists the keys the registry has at the snapshot and keeps
\* throughout the fan-out; a handler that has not registered when the tick
\* takes the mutex stays unregistered until the tick is over, is not listed
\* in the tick's record and is not written; and the step that inserts a key
\* is taken between ticks, for a handle no record lists.
C18_RecipientInSnapshot ==
    /\ [](\A t \in Ticks : \A c \in Attempted(t) :
            /\ c \in DOMAIN hist[t].entities
            /\ hist[t].entities[c].Connected)
    /\ [][Len(hist') > Len(hist) =>
            DOMAIN hist'[Len(hist')].entities = DOMAIN clients]_vars
    /\ [][\A c \in Conns : \A t \in Ticks :
            (c \in Attempted(t)' /\ c \notin Attempted(t)) =>
               /\ DOMAIN hist[t].entities = DOMAIN clients
               /\ DOMAIN clients' = DOMAIN clients]_vars
    /\ [](tpc # "wait" =>
            \A c \in Unregistered :
               /\ c \notin DOMAIN clients
               /\ Len(hist) = tick =>
                     c \notin DOMAIN hist[tick].entities \cup Attempted(tick))
    /\ [][tpc # "wait" => \A c \in Unregistered : c \in Unregistered']_vars
    /\ [][\A c \in Conns :
            (c \notin DOMAIN clients /\ c \in DOMAIN clients') =>
               /\ tpc = "wait" /\ tpc' = "wait"
               /\ \A t \in Ticks : c \notin DOMAIN hist[t].entities]_vars

\* During a fan-out a registered session has been written its payload while
\* a session that upgraded waits to register and is not in the payload.
C18_Witness ==
    \E c \in Conns : \E d \in Conns :
       /\ tpc = "fanout"
       /\ c \in hist[tick].written
       /\ hist[tick].entities[c].Connected
       /\ pc[d] = "upgraded"
       /\ d \notin DOMAIN hist[tick].entities

\* C19 (stale write-back is unobservable): the store of the deferred
\* function writes the handler's own copy -- the registered position, zero
\* velocity, Connected = false -- over the registry entry; while that copy
\* is in the registry the handler holds the mutex, the broadcaster waits and
\* no record is taken, and the handler's next step deletes the key; so every
\* entity a record lists is away from its registered position and velocity.
C19_StaleWriteBack ==
    /\ [][\A c \in Conns :
            (pc[c] = "unregister" /\ pc'[c] = "delete") =>
               /\ clients'[c] = Ghost(Registered(c))
               /\ clients'[c].Velocity = Vec(0, 0)
               /\ clients'[c].Position \in StartPositions
               /\ clientsMu = c /\ clientsMu' = c]_vars
    /\ [](\A c \in Conns :
            pc[c] = "delete" =>
               /\ clientsMu = c
               /\ tpc = "wait"
               /\ clients[c] = entity[c])
    /\ [][\A c \in Conns :
            pc[c] = "delete" =>
               /\ hist' = hist
               /\ pc'[c] # pc[c] => pc'[c] = "close" /\ c \notin DOMAIN clients']_vars
    /\ [](\A t \in Ticks : \A c \in DOMAIN hist[t].entities :
            /\ hist[t].entities[c].Position # entity[c].Position
            /\ hist[t].entities[c].Velocity # entity[c].Velocity
            /\ hist[t].entities[c].ID = entity[c].ID)
    /\ [](\A c \in DOMAIN clients :
            (clients[c].Position = entity[c].Position /\ tick > 0 /\ tpc # "physics") =>
               \/ pc[c] = "delete"
               \/ \A t \in Ticks : c \notin DOMAIN hist[t].entities)

\* The deferred function has written the registered position over an entry
\* that a tick had integrated and listed; the key is not deleted yet.
C19_Witness ==
    \E t \in Ticks : \E c \in ConnectedAt(t) :
       /\ pc[c] = "delete"
       /\ c \in DOMAIN clients
       /\ clients[c].Position = entity[c].Position
       /\ clients[c].Position # hist[t].entities[c].Position

\* C20 (eventual removal): when goroutines are scheduled fairly and every
\* write of the fan-out loop returns, a session whose read loop returned an
\* error has its key deleted from the registry and its transport closed
\* eventually; from the delete on the handle stays out of the registry and
\* no record taken afterwards lists it.
C20_EventualRemoval ==
    /\ \A c \in Conns :
          (pc[c] = "defer") ~> (pc[c] = "closed" /\ c \notin DOMAIN clients)
    /\ [][\A c \in Removed :
            /\ c \in Removed'
            /\ c \notin DOMAIN clients'
            /\ Len(hist') > Len(hist) => c \notin DOMAIN hist'[Len(hist')].entities]_vars

\* A ghost's handler has deleted the key and closed the transport, and the
\* record of the next tick does not list the handle.
C20_Witness ==
    \E t \in Ticks : \E c \in hist[t].failed :
       /\ t < Len(hist)
       /\ pc[c] = "closed"
       /\ c \notin DOMAIN clients
       /\ c \notin DOMAIN hist[t + 1].entities

=============================================================================
